---- MODULE Spec2Model ----
(***************************************************************************)
(* Model of houingData.py: the RealEstateAnalyzer object (listing          *)
(* collection, price BST, range search, grouped means, the chart series)   *)
(* and the main() program that drives it.                                  *)
(*                                                                         *)
(* Floats are modelled as integers, with NaN as one distinguished value    *)
(* that every comparison operator treats as IEEE-754 does (all ordered     *)
(* comparisons with NaN are false).  Listing prices are the validated      *)
(* non-negative numbers of the dataset; only the query bounds typed by the *)
(* user can be NaN.  A float quotient sum/len is modelled as the exact     *)
(* fraction <<numerator, denominator>> in lowest terms.                    *)
(***************************************************************************)
EXTENDS Integers, Sequences, FiniteSets, TLC

VARIABLES properties,      \* self.properties
          price_bst_root,  \* self.price_bst_root
          ret,             \* the last call and what it returned
          builds,          \* how many times build_price_bst has run
          pc,              \* where main() is
          min_price,       \* main's locals
          max_price,
          stdout           \* the last line printed

vars == <<properties, price_bst_root, ret, builds, pc, min_price, max_price, stdout>>

(* ---------------------------- bounds ----------------------------------- *)
MaxProps == 3
MaxPrice == 2
MaxBuilds == 2

Prices == 0..MaxPrice
Cities == {"A", "B"}
Years == {2020, 2021}
Bedrooms == {3}

(* ---------------------------- floats ----------------------------------- *)
NaN == -1000

\* bounds a caller can pass to the range query
QueryBounds == (0..(MaxPrice + 1)) \cup {NaN}

FLt(a, b) == a # NaN /\ b # NaN /\ a < b
FLe(a, b) == a # NaN /\ b # NaN /\ a <= b
FGt(a, b) == FLt(b, a)

RECURSIVE Gcd(_, _)
Gcd(a, b) == IF b = 0 THEN a ELSE Gcd(b, a % b)

\* a / b for floats holding the integers a >= 0, b > 0
Div(a, b) == LET g == Gcd(a, b) IN <<a \div g, b \div g>>

RECURSIVE Sum(_)
Sum(s) == IF s = <<>> THEN 0 ELSE Head(s) + Sum(Tail(s))

\* the int 0 of trends[year].get(location, 0), as the float the plot receives
Zero == <<0, 1>>

(* ---------------------------- data ------------------------------------- *)
\* datetime.strptime(y, '%Y'): the first of January of that year
strptime(y) == [year |-> y, month |-> 1, day |-> 1]

Property(id, latestPrice, numOfBedrooms, city, latest_saleyear) ==
    [id |-> id, latestPrice |-> latestPrice, numOfBedrooms |-> numOfBedrooms,
     city |-> city, latest_saleyear |-> strptime(latest_saleyear)]

None == [isNone |-> TRUE]

BSTNode(property) == [property |-> property, left |-> None, right |-> None]

\* one record of the CSV file; zpid is assigned by LoadData
Rows == [latestPrice : Prices, numOfBedrooms : Bedrooms, city : Cities,
         latest_saleyear : Years]

\* the records that differ in price only: insert_bst and
\* search_by_price_range read no other field of a listing
PriceRows == {r \in Rows : r.city = "A" /\ r.latest_saleyear = 2020}

RowSeqs(rows, n) == UNION {[1..k -> rows] : k \in 0..n}

(* ---------------------------- price index ------------------------------ *)
RECURSIVE insert_bst_ties_left(_, _)
insert_bst_ties_left(node, property) ==
    IF node = None THEN BSTNode(property)
    ELSE IF property.latestPrice <= node.property.latestPrice
         THEN [node EXCEPT !.left = insert_bst_ties_left(node.left, property)]
         ELSE [node EXCEPT !.right = insert_bst_ties_left(node.right, property)]

RECURSIVE insert_bst(_, _)
insert_bst(node, property) ==
    IF node = None THEN BSTNode(property)
    ELSE IF FLt(property.latestPrice, node.property.latestPrice)
         THEN [node EXCEPT !.left = insert_bst(node.left, property)]
         ELSE [node EXCEPT !.right = insert_bst(node.right, property)]

RECURSIVE InsertAll(_, _)
InsertAll(root, props) ==
    IF props = <<>> THEN root
    ELSE InsertAll(insert_bst(root, Head(props)), Tail(props))

\* a build that keeps the old tree and inserts into it
build_price_bst_merging(old_root, props) == InsertAll(old_root, props)

\* the value of self.price_bst_root after build_price_bst
build_price_bst(old_root, props) == InsertAll(None, props)

RECURSIVE search_by_price_range(_, _, _, _)
search_by_price_range(root, min, max, results) ==
    IF root = None THEN results
    ELSE LET price == root.property.latestPrice
             r1 == IF FLe(min, price) /\ FLe(price, max)
                   THEN Append(results, root.property) ELSE results
             r2 == IF FLt(min, price)
                   THEN search_by_price_range(root.left, min, max, r1) ELSE r1
         IN  IF FGt(max, price)
             THEN search_by_price_range(root.right, min, max, r2) ELSE r2

\* a search that forgets the upper bound when it tests a node
RECURSIVE search_no_upper_bound(_, _, _, _)
search_no_upper_bound(root, min, max, results) ==
    IF root = None THEN results
    ELSE LET price == root.property.latestPrice
             r1 == IF FLe(min, price)
                   THEN Append(results, root.property) ELSE results
             r2 == IF FLt(min, price)
                   THEN search_no_upper_bound(root.left, min, max, r1) ELSE r1
         IN  IF FGt(max, price)
             THEN search_no_upper_bound(root.right, min, max, r2) ELSE r2

find_properties_in_price_range_unbounded(root, min, max) ==
    search_no_upper_bound(root, min, max, <<>>)

find_properties_in_price_range(root, min, max) ==
    search_by_price_range(root, min, max, <<>>)

(* ---------------------------- aggregation ------------------------------ *)
\* d[k] of a defaultdict(list)
GetList(d, k) == IF k \in DOMAIN d THEN d[k] ELSE <<>>

\* d.get(k, default)
Get(d, k, default) == IF k \in DOMAIN d THEN d[k] ELSE default

Put(d, k, v) == [x \in DOMAIN d \cup {k} |-> IF x = k THEN v ELSE d[x]]

EmptyDict == [x \in {} |-> <<>>]

RECURSIVE location_prices(_, _)
location_prices(props, acc) ==
    IF props = <<>> THEN acc
    ELSE LET prop == Head(props)
         IN  location_prices(Tail(props),
                 Put(acc, prop.city,
                     Append(GetList(acc, prop.city), prop.latestPrice)))

\* every city averaged over the whole collection
average_over_all(props) ==
    LET lp == location_prices(props, EmptyDict)
    IN  [loc \in DOMAIN lp |-> Div(Sum(lp[loc]), Len(props))]

calculate_average_price_by_location(props) ==
    LET lp == location_prices(props, EmptyDict)
    IN  [loc \in DOMAIN lp |-> Div(Sum(lp[loc]), Len(lp[loc]))]

\* a grouping that files a listing under every year seen so far
RECURSIVE yearly_location_prices_every_year(_, _)
yearly_location_prices_every_year(props, acc) ==
    IF props = <<>> THEN acc
    ELSE LET prop == Head(props)
             year == prop.latest_saleyear.year
         IN  yearly_location_prices_every_year(Tail(props),
                 [y \in DOMAIN acc \cup {year} |->
                     Put(Get(acc, y, EmptyDict), prop.city,
                         Append(GetList(Get(acc, y, EmptyDict), prop.city),
                                prop.latestPrice))])

RECURSIVE yearly_location_prices(_, _)
yearly_location_prices(props, acc) ==
    IF props = <<>> THEN acc
    ELSE LET prop == Head(props)
             year == prop.latest_saleyear.year
             inner == Get(acc, year, EmptyDict)
         IN  yearly_location_prices(Tail(props),
                 Put(acc, year,
                     Put(inner, prop.city,
                         Append(GetList(inner, prop.city), prop.latestPrice))))

find_trends(props) ==
    LET ylp == yearly_location_prices(props, EmptyDict)
    IN  [year \in DOMAIN ylp |->
            [loc \in DOMAIN ylp[year] |->
                Div(Sum(ylp[year][loc]), Len(ylp[year][loc]))]]

\* sorted(S) for a set of integers
RECURSIVE sorted(_)
sorted(S) ==
    IF S = {} THEN <<>>
    ELSE LET m == CHOOSE x \in S : \A y \in S : x <= y
         IN  <<m>> \o sorted(S \ {m})

\* what visualize_data hands to the two charts
visualize_data(props) ==
    LET avg_prices == calculate_average_price_by_location(props)
        trends == find_trends(props)
        years == sorted(DOMAIN trends)
    IN  [bars |-> avg_prices,
         years |-> years,
         lines |-> [location \in {props[i].city : i \in DOMAIN props} |->
                      [i \in DOMAIN years |->
                          Get(trends[years[i]], location, Zero)]]]

(* ---------------------------- the analyzer object ---------------------- *)
NoRet == [op |-> "init"]

Init ==
    /\ properties = <<>>
    /\ price_bst_root = None
    /\ ret = NoRet
    /\ builds = 0
    /\ pc = "start"
    /\ min_price = 0
    /\ max_price = 0
    /\ stdout = ""

\* load_data: one Property per row of the file, appended in file order
load_data(props, rows) ==
    props \o [i \in DOMAIN rows |->
                Property(Len(props) + i, rows[i].latestPrice,
                         rows[i].numOfBedrooms, rows[i].city,
                         rows[i].latest_saleyear)]

LoadData ==
    \E rows \in RowSeqs(Rows, MaxProps - Len(properties)) :
        /\ properties' = load_data(properties, rows)
        /\ ret' = [op |-> "load", raised |-> "none"]
        /\ stdout' = "Loaded"
        /\ UNCHANGED <<price_bst_root, builds, pc, min_price, max_price>>

\* load_data of a file whose records differ in price only
LoadPricedData ==
    \E rows \in RowSeqs(PriceRows, MaxProps - Len(properties)) :
        /\ properties' = load_data(properties, rows)
        /\ ret' = [op |-> "load", raised |-> "none"]
        /\ stdout' = "Loaded"
        /\ UNCHANGED <<price_bst_root, builds, pc, min_price, max_price>>

BuildPriceBst ==
    /\ builds < MaxBuilds
    /\ price_bst_root' = build_price_bst(price_bst_root, properties)
    /\ builds' = builds + 1
    /\ ret' = [op |-> "build", raised |-> "none"]
    /\ stdout' = "Binary Search Tree built successfully"
    /\ UNCHANGED <<properties, pc, min_price, max_price>>

FindPropertiesInPriceRange ==
    \E min \in QueryBounds, max \in QueryBounds :
        /\ ret' = [op |-> "find", raised |-> "none", min |-> min, max |-> max,
                   value |-> find_properties_in_price_range(price_bst_root, min, max)]
        /\ UNCHANGED <<properties, price_bst_root, builds, pc, min_price, max_price, stdout>>

CalculateAveragePriceByLocation ==
    /\ ret' = [op |-> "average", raised |-> "none",
               value |-> calculate_average_price_by_location(properties)]
    /\ UNCHANGED <<properties, price_bst_root, builds, pc, min_price, max_price, stdout>>

FindTrends ==
    /\ ret' = [op |-> "trends", raised |-> "none",
               value |-> find_trends(properties)]
    /\ UNCHANGED <<properties, price_bst_root, builds, pc, min_price, max_price, stdout>>

VisualizeData ==
    /\ ret' = [op |-> "visualize", raised |-> "none",
               value |-> visualize_data(properties)]
    /\ stdout' = "Visualizations saved"
    /\ UNCHANGED <<properties, price_bst_root, builds, pc, min_price, max_price>>

\* the price index: load, build and query in any order
Next ==
    \/ LoadPricedData
    \/ BuildPriceBst
    \/ FindPropertiesInPriceRange

Spec == Init /\ [][Next]_vars

\* the aggregations: load and summarise in any order
AggNext ==
    \/ LoadData
    \/ CalculateAveragePriceByLocation
    \/ FindTrends
    \/ VisualizeData

AggSpec == Init /\ [][AggNext]_vars

(* ---------------------------- main() ----------------------------------- *)
\* what the user can type at a prompt
InputNumbers == (-1)..(MaxPrice + 1)
InputStrings == {"abc", "nan"} \cup {ToString(n) : n \in InputNumbers}

\* float(s) raises ValueError unless s is a number or "nan"
RaisesValueError(s) == s # "nan" /\ \A n \in InputNumbers : ToString(n) # s

float(s) == IF s = "nan" THEN NaN
            ELSE CHOOSE n \in InputNumbers : ToString(n) = s

InvalidMessage == "Invalid input"

\* the line written when nothing matched, among lines that are listing ids
NoMatchLine == 0

MainLoadData ==
    /\ pc = "start"
    /\ \E rows \in RowSeqs(Rows, MaxProps) :
           properties' = load_data(properties, rows)
    /\ stdout' = "Loaded"
    /\ pc' = "build"
    /\ UNCHANGED <<price_bst_root, ret, builds, min_price, max_price>>

MainBuildPriceBst ==
    /\ pc = "build"
    /\ price_bst_root' = build_price_bst(price_bst_root, properties)
    /\ builds' = builds + 1
    /\ stdout' = "Binary Search Tree built successfully"
    /\ pc' = "analysis"
    /\ UNCHANGED <<properties, ret, min_price, max_price>>

\* avg_prices and trends are computed and bound to locals
MainAnalysis ==
    /\ pc = "analysis"
    /\ ret' = [op |-> "analysis", raised |-> "none",
               avg_prices |-> calculate_average_price_by_location(properties),
               trends |-> find_trends(properties)]
    /\ pc' = "prompt"
    /\ UNCHANGED <<properties, price_bst_root, builds, min_price, max_price, stdout>>

\* one round of the while True loop: two prompts, the check, break or except
MainPrompt ==
    /\ pc = "prompt"
    /\ \E in1 \in InputStrings, in2 \in InputStrings :
          IF RaisesValueError(in1)
          THEN /\ stdout' = InvalidMessage
               /\ pc' = "prompt"
               /\ UNCHANGED <<min_price, max_price>>
          ELSE IF RaisesValueError(in2)
          THEN /\ min_price' = float(in1)
               /\ stdout' = InvalidMessage
               /\ pc' = "prompt"
               /\ UNCHANGED max_price
          ELSE /\ min_price' = float(in1)
               /\ max_price' = float(in2)
               /\ IF FLt(float(in1), 0) \/ FLt(float(in2), 0)
                        \/ FGt(float(in1), float(in2))
                  THEN stdout' = InvalidMessage /\ pc' = "prompt"
                  ELSE stdout' = stdout /\ pc' = "search"
    /\ UNCHANGED <<properties, price_bst_root, ret, builds>>

MainSearch ==
    /\ pc = "search"
    /\ ret' = [op |-> "find", raised |-> "none",
               min |-> min_price, max |-> max_price,
               value |-> find_properties_in_price_range(price_bst_root,
                                                        min_price, max_price)]
    /\ pc' = "write"
    /\ UNCHANGED <<properties, price_bst_root, builds, min_price, max_price, stdout>>

\* property_search_results.txt: one line per result, or the no-match line
MainWrite ==
    /\ pc = "write"
    /\ ret' = [op |-> "write", raised |-> "none",
               lines |-> IF ret.value # <<>>
                         THEN [i \in DOMAIN ret.value |-> ret.value[i].id]
                         ELSE <<NoMatchLine>>]
    /\ stdout' = "Search results have been written"
    /\ pc' = "visualize"
    /\ UNCHANGED <<properties, price_bst_root, builds, min_price, max_price>>

MainVisualize ==
    /\ pc = "visualize"
    /\ ret' = [op |-> "visualize", raised |-> "none",
               value |-> visualize_data(properties)]
    /\ stdout' = "Visualizations saved"
    /\ pc' = "done"
    /\ UNCHANGED <<properties, price_bst_root, builds, min_price, max_price>>

MainNext ==
    \/ MainLoadData
    \/ MainBuildPriceBst
    \/ MainAnalysis
    \/ MainPrompt
    \/ MainSearch
    \/ MainWrite
    \/ MainVisualize

MainSpec == Init /\ [][MainNext]_vars

(* ---------------------------- properties ------------------------------- *)
\* every listing stored in a tree, node first, then left, then right
RECURSIVE TreeListings(_)
TreeListings(t) ==
    IF t = None THEN <<>>
    ELSE <<t.property>> \o TreeListings(t.left) \o TreeListings(t.right)

Elems(s) == {s[i] : i \in DOMAIN s}

\* the tree holds exactly the listings of the collection, one node each
Indexed ==
    /\ Len(TreeListings(price_bst_root)) = Len(properties)
    /\ Elems(TreeListings(price_bst_root)) = Elems(properties)

InRange(p, min, max) == FLe(min, p.latestPrice) /\ FLe(p.latestPrice, max)

RECURSIVE SumOver(_, _)
SumOver(S, f) ==
    IF S = {} THEN 0
    ELSE LET x == CHOOSE y \in S : TRUE IN f[x] + SumOver(S \ {x}, f)

PriceOf == [i \in DOMAIN properties |-> properties[i].latestPrice]

InCity(c) == {i \in DOMAIN properties : properties[i].city = c}

InYearCity(y, c) ==
    {i \in DOMAIN properties :
        properties[i].city = c /\ properties[i].latest_saleyear.year = y}

\* C1: after a build, a range query with a <= b returns exactly the listings
\* of the collection priced within [a, b], each exactly once, none omitted
\* (listings priced b in the right subtree of a node priced b included).
C1_RangeQueryExact ==
    (ret.op = "find" /\ Indexed /\ FLe(ret.min, ret.max)) =>
        /\ Elems(ret.value) = {p \in Elems(properties) : InRange(p, ret.min, ret.max)}
        /\ Len(ret.value) = Cardinality(Elems(ret.value))

\* C2: the sequence a range query returns is non-decreasing by price.
C2_ResultAscending ==
    ret.op = "find" =>
        \A i \in DOMAIN ret.value, j \in DOMAIN ret.value :
            i < j => ret.value[i].latestPrice <= ret.value[j].latestPrice

\* C3: a range query issued while listings are loaded but the tree is still
\* None signals NotIndexed instead of returning a result.
C3_QueryBeforeBuildFails ==
    (ret.op = "find" /\ price_bst_root = None /\ properties # <<>>) =>
        ret.raised = "NotIndexed"

\* C4: main passes only bounds with 0 <= min <= max to the range search;
\* any other pair of bounds is rejected before the search.
C4_OnlyValidBoundsSearched ==
    pc = "search" => FLe(0, min_price) /\ FLe(min_price, max_price)

\* C5: in every tree, every listing in a node's left subtree is priced
\* strictly below the node and every listing in its right subtree is priced
\* at or above it.
RECURSIVE BSTOrder(_)
BSTOrder(t) ==
    t = None \/
        /\ \A p \in Elems(TreeListings(t.left)) :
               p.latestPrice < t.property.latestPrice
        /\ \A p \in Elems(TreeListings(t.right)) :
               p.latestPrice >= t.property.latestPrice
        /\ BSTOrder(t.left)
        /\ BSTOrder(t.right)

C5_BSTOrderInvariant == BSTOrder(price_bst_root)

\* a tree with a smaller listing on the left and an equal-priced one on the right
C5_Witness ==
    /\ price_bst_root # None
    /\ price_bst_root.left # None
    /\ price_bst_root.right # None
    /\ price_bst_root.right.property.latestPrice
           = price_bst_root.property.latestPrice

\* C6: after build_price_bst, however many builds and loads came before, the
\* tree holds exactly one node per listing of the collection, and every range
\* query answers as it does on a tree built once from the empty tree.
C6_RebuildDiscards ==
    ret.op = "build" =>
        /\ Indexed
        /\ \A a \in QueryBounds, b \in QueryBounds :
               find_properties_in_price_range(price_bst_root, a, b)
                   = find_properties_in_price_range(InsertAll(None, properties), a, b)

\* a second build over a collection of several listings
C6_Witness ==
    /\ ret.op = "build"
    /\ builds >= 2
    /\ Len(properties) >= 2
    /\ Len(TreeListings(price_bst_root)) = Len(properties)

\* C7: the averages are keyed by exactly the cities of the collection, each
\* value is the sum of that city's prices over their count (at least 1), and
\* count x mean summed over the cities is the total of all prices.
C7_AverageByLocation ==
    ret.op = "average" =>
        /\ DOMAIN ret.value = {properties[i].city : i \in DOMAIN properties}
        /\ \A c \in DOMAIN ret.value :
               /\ Cardinality(InCity(c)) >= 1
               /\ ret.value[c] = Div(SumOver(InCity(c), PriceOf),
                                     Cardinality(InCity(c)))
        /\ SumOver(DOMAIN ret.value,
                   [c \in DOMAIN ret.value |->
                       (Cardinality(InCity(c)) * ret.value[c][1])
                           \div ret.value[c][2]])
               = Sum(PriceOf)

C7_Witness ==
    /\ ret.op = "average"
    /\ DOMAIN ret.value = Cities
    /\ \E c \in Cities : \E i \in InCity(c), j \in InCity(c) :
           properties[i].latestPrice # properties[j].latestPrice

\* C8: find_trends has an entry for (year, city) exactly when some listing
\* has that sale year and city, the entry is the mean price of exactly those
\* listings, and the group sizes add up to the number of listings.
C8_TrendsGrouping ==
    ret.op = "trends" =>
        /\ \A y \in Years, c \in Cities :
               (y \in DOMAIN ret.value /\ c \in DOMAIN ret.value[y])
                   <=> InYearCity(y, c) # {}
        /\ DOMAIN ret.value \subseteq Years
        /\ \A y \in DOMAIN ret.value :
               /\ DOMAIN ret.value[y] \subseteq Cities
               /\ \A c \in DOMAIN ret.value[y] :
                      ret.value[y][c] = Div(SumOver(InYearCity(y, c), PriceOf),
                                            Cardinality(InYearCity(y, c)))
        /\ LET ylp == yearly_location_prices(properties, EmptyDict)
               pairs == {<<y, c>> \in Years \X Cities :
                            y \in DOMAIN ylp /\ c \in DOMAIN ylp[y]}
           IN  SumOver(pairs, [q \in pairs |-> Len(ylp[q[1]][q[2]])])
                   = Len(properties)

\* two years, a city missing from one of them, a group of two listings
C8_Witness ==
    /\ ret.op = "trends"
    /\ DOMAIN ret.value = Years
    /\ \E y \in Years : DOMAIN ret.value[y] # Cities
    /\ \E y \in Years, c \in Cities : Cardinality(InYearCity(y, c)) >= 2

\* C9: in the yearly series of visualize_data a (year, city) group without
\* listings is never given the value of a group whose mean price is 0.
C9_MissingGroupNotZero ==
    ret.op = "visualize" =>
        \A c \in DOMAIN ret.value.lines : \A i \in DOMAIN ret.value.years :
            InYearCity(ret.value.years[i], c) = {}
                => ret.value.lines[c][i] # Zero

\* C10: a range query never raises and returns only listings of the tree
\* priced within [min, max]; so it returns nothing when min > max, when no
\* price lies within the bounds and when the tree is empty, and with
\* min = max = the price of exactly one listing it returns that listing.
C10_QueryTotalAndSound ==
    ret.op = "find" =>
        LET stored == TreeListings(price_bst_root)
            hits == {p \in Elems(stored) : p.latestPrice = ret.min}
        IN  /\ ret.raised = "none"
            /\ \A i \in DOMAIN ret.value :
                   /\ ret.value[i] \in Elems(stored)
                   /\ InRange(ret.value[i], ret.min, ret.max)
            /\ FGt(ret.min, ret.max) => ret.value = <<>>
            /\ (\A p \in Elems(stored) : ~InRange(p, ret.min, ret.max))
                   => ret.value = <<>>
            /\ price_bst_root = None => ret.value = <<>>
            /\ (ret.min = ret.max /\ Cardinality(hits) = 1)
                   => ret.value = <<CHOOSE p \in hits : TRUE>>

\* a point query that hits one listing of a tree holding others as well
C10_Witness ==
    /\ ret.op = "find"
    /\ ret.min = ret.max
    /\ Len(ret.value) = 1
    /\ Len(TreeListings(price_bst_root)) >= 2
    /\ price_bst_root.property # ret.value[1]

====
